---- MODULE Spec2Model ----
(***************************************************************************)
(* CliniCoach (src/app.py): the "Start Analysis" pipeline of the Streamlit *)
(* script: upload -> transcription submission -> status polling ->        *)
(* persona completion -> coaching-feedback completion, together with the  *)
(* widgets that re-run the script.                                         *)
(*                                                                         *)
(* Python values are records [type, toks]: a str is the sequence of its    *)
(* tokens, None has type "NoneType", a name that was never bound has type  *)
(* "undefined".  An f-string concatenates the tokens of its pieces.        *)
(*                                                                         *)
(* Streamlit facts the model relies on:                                    *)
(*  - st.stop() raises StopException, a BaseException: "except Exception"  *)
(*    does not catch it, the script run ends there;                        *)
(*  - st.button(label) is True only in the script run triggered by a click *)
(*    on that very button; every click re-runs the script from the top in  *)
(*    a fresh namespace;                                                   *)
(*  - requests has no default timeout: a call without timeout= waits for   *)
(*    the server for ever.                                                 *)
(* The progress_bar / status_text calls inside the polling loop may raise;  *)
(* st.error, st.warning and st.stop are taken to work.                     *)
(* The user is taken to click only once the current script run has ended.  *)
(***************************************************************************)
EXTENDS Integers, Sequences, FiniteSets, TLC

\* ------------------------------------------------------------------ bounds
\* number of times the user may click "Start Analysis"
MaxRuns == 2

\* ------------------------------------------------------- program constants
\* max_retries = 30
max_retries == 30
\* timeout=60 of the upload request
UploadTimeout == 60
\* timeout=30 of the completion request
GptTimeout == 30
\* the submission POST and the poll GET pass no timeout= (requests: None)
NoTimeout == 0

\* the literal "⚠️ GPT error" (ASCII here), the prefix of every error string
ErrorMarker == "GPT error"

\* ------------------------------------------------------------ Python values
Str(toks) == [type |-> "str", toks |-> toks]
None == [type |-> "NoneType", toks |-> <<>>]
Undefined == [type |-> "undefined", toks |-> <<>>]

\* str(v) as an f-string placeholder renders it
Fmt(v) == IF v.type = "NoneType" THEN <<"None">> ELSE v.toks

\* s.startswith(prefix) for a str s and a one-token prefix
startswith(s, prefix) == Len(s.toks) > 0 /\ s.toks[1] = prefix

\* sub is a contiguous part of s
Embeds(s, sub) ==
    \E i \in 0..(Len(s) - Len(sub)) :
        \A j \in 1..Len(sub) : s[i + j] = sub[j]

\* ------------------------------------------------- what the services answer
\* net: how the HTTP exchange itself ends
\*   "hang"        the server never responds
\*   "conn_error"  connection failure (requests.exceptions.ConnectionError)
\*   "http_status" a non-2xx status such as 401
\*   "bad_json"    2xx with a body that is not JSON
\*   "json"        2xx with a JSON object
Texts == {Str(<<"Doctor: ...">>), Str(<<"Patient: ...">>)}
Contents == {Str(<<"Anxious 45-year-old man">>), Str(<<"Three suggestions">>)}

UploadResp(net, hasUrl) == [net |-> net, hasUrl |-> hasUrl]
NoUpload == UploadResp("undefined", FALSE)
UploadResponses ==
    {UploadResp(n, FALSE) : n \in {"hang", "conn_error", "http_status", "bad_json", "json"}}
        \cup {UploadResp("json", TRUE)}

SubmitResp(net, hasId) == [net |-> net, hasId |-> hasId]
NoSubmit == SubmitResp("undefined", FALSE)
SubmitResponses ==
    {SubmitResp(n, FALSE) : n \in {"hang", "conn_error", "http_status", "bad_json", "json"}}
        \cup {SubmitResp("json", TRUE)}

PollResp(net, hasStatus, st, hasText, text) ==
    [net |-> net, hasStatus |-> hasStatus, status |-> st,
     hasText |-> hasText, text |-> text]
NoPayload == PollResp("undefined", FALSE, "", FALSE, Undefined)
InProgressStatuses == {"queued", "processing", "resumed"}
PollResponses ==
    {PollResp(n, FALSE, "", FALSE, Undefined) :
        n \in {"hang", "conn_error", "http_status", "bad_json", "json"}}
    \cup {PollResp("json", TRUE, s, FALSE, Undefined) :
            s \in InProgressStatuses \cup {"error", "completed"}}
    \cup {PollResp("json", TRUE, "completed", TRUE, t) : t \in Texts}

\* body of a completion answer: choices may be absent, empty, or hold one
\* entry whose message.content is absent, null or a string; an error object
\* may sit under "error"
GptResp(net, hasChoices, nChoices, hasContent, content, errorMessage) ==
    [net |-> net, hasChoices |-> hasChoices, nChoices |-> nChoices,
     hasContent |-> hasContent, content |-> content,
     errorMessage |-> errorMessage]
GptResponses ==
    {GptResp(n, FALSE, 0, FALSE, Undefined, "") :
        n \in {"hang", "conn_error", "http_status", "bad_json"}}
    \cup {GptResp("json", FALSE, 0, FALSE, Undefined, "rate limited"),
          GptResp("json", TRUE, 0, FALSE, Undefined, ""),
          GptResp("json", TRUE, 1, FALSE, Undefined, ""),
          GptResp("json", TRUE, 1, TRUE, None, "")}
    \cup {GptResp("json", TRUE, 1, TRUE, c, "") : c \in Contents}

\* ------------------------------------------------------------ remote calls
\* requests.post / requests.get with the given timeout against an exchange
\* that ends as net: the call returns a response, raises, or never returns
Request(net, timeout) ==
    CASE net = "hang" -> IF timeout > NoTimeout THEN "raise" ELSE "blocked"
      [] net = "conn_error" -> "raise"
      [] OTHER -> "response"

\* requests.post(...); response.raise_for_status(); response.json()
\* "blocked", "raise" (any Exception) or "json" (a parsed body)
Fetch(net, timeout) ==
    CASE Request(net, timeout) = "blocked" -> "blocked"
      [] Request(net, timeout) = "raise" -> "raise"
      [] net = "http_status" -> "raise"
      [] net = "bad_json" -> "raise"
      [] OTHER -> "json"

\* ------------------------------------------------------- get_gpt_response
\* repr of the parsed body inside the "Unexpected response format" string
Repr(resp) ==
    IF resp.hasChoices THEN <<"{'choices': []}">>
    ELSE IF resp.errorMessage # ""
         THEN <<"{'error': {'message': '", resp.errorMessage, "'}}">>
         ELSE <<"{}">>

\* variant: result["choices"][0] without the "choices" in result test; the
\* KeyError or IndexError lands in except Exception
get_gpt_response_NoShapeTest(resp) ==
    CASE Fetch(resp.net, GptTimeout) = "raise" /\ resp.net # "bad_json" ->
            Str(<<ErrorMarker, ": ", resp.net>>)
      [] Fetch(resp.net, GptTimeout) = "raise" /\ resp.net = "bad_json" ->
            Str(<<ErrorMarker, ": Invalid response format - ", resp.net>>)
      [] OTHER ->
            IF resp.hasChoices /\ resp.nChoices > 0
            THEN IF resp.hasContent
                 THEN resp.content
                 ELSE Str(<<ErrorMarker, ": ", "'content'">>)
            ELSE IF resp.hasChoices
                 THEN Str(<<ErrorMarker, ": ", "list index out of range">>)
                 ELSE Str(<<ErrorMarker, ": ", "'choices'">>)

\* the value get_gpt_response returns when the completion exchange ends as
\* resp; every except branch returns a string that begins with ErrorMarker
get_gpt_response(resp) ==
    CASE Fetch(resp.net, GptTimeout) = "raise" /\ resp.net # "bad_json" ->
            Str(<<ErrorMarker, ": ", resp.net>>)
      [] Fetch(resp.net, GptTimeout) = "raise" /\ resp.net = "bad_json" ->
            Str(<<ErrorMarker, ": Invalid response format - ", resp.net>>)
      [] OTHER ->
            IF resp.hasChoices /\ resp.nChoices > 0
            THEN IF resp.hasContent
                 THEN resp.content
                 ELSE Str(<<ErrorMarker, ": ", "'content'">>)
            ELSE Str(<<ErrorMarker, ": Unexpected response format ">> \o Repr(resp))

\* ------------------------------------------------------------------ prompts
persona_prompt(transcript) ==
    Str(<<"This is a transcript of a doctor-patient interaction:">>
        \o Fmt(transcript)
        \o <<"Describe the patient's persona in one sentence.">>)

\* variant: the coaching prompt leaves the persona out
coaching_prompt_NoPersona(transcript, persona) ==
    Str(<<"You are a communication coach for doctors.">>
        \o Fmt(transcript)
        \o <<"Analyze the doctor's actual communication">>)

coaching_prompt(transcript, persona) ==
    Str(<<"You are a communication coach for doctors.">>
        \o Fmt(transcript)
        \o <<"The patient persona is:">>
        \o Fmt(persona)
        \o <<"Analyze the doctor's actual communication">>)

\* -------------------------------------------------------------------- state
VARIABLES
    pc,                \* where the script is: "idle" (rendered, Start Analysis
                       \* not pressed), "upload", "submit", "poll" (head of the
                       \* polling loop), "after_poll" (left by break), "persona",
                       \* "feedback", "persist", or how the run ended: "done", "stopped"
                       \* (st.stop), "crashed" (uncaught exception), "blocked"
                       \* (a request that never returns)
    run,               \* Start Analysis clicks so far
    audio_url, transcript_id,
    status, retry_count, result,
    transcript_text, persona_summary, coaching_feedback,
    halt,              \* the fatal error that ended the run, "" if none
    notified,          \* what the last step showed the user
    retryShown,        \* retry buttons on the page
    retryClicked,      \* retry buttons the user pressed since Start Analysis
    issued,            \* [kind, timeout] of the remote calls of this run
    lastUpload,        \* how the upload exchange ended
    lastSubmit,        \* how the submission exchange ended
    pollCalls,         \* poll requests of this run
    lastPoll,          \* how the latest poll exchange ended
    onlyInProgress,    \* every poll so far returned a non-terminal status
    ref,               \* the polling loop fed the same poll answers with a
                       \* progress display that never raises:
                       \* [pc, status, retry_count]
    session_record,    \* the record handed to the persistence collaborator
    persisted,         \* "none", or how that write ended: "ok", "failed"
    gptCalls           \* completion requests of this run:
                       \* [stage, prompt, resp, value]

vars == <<pc, run, audio_url, transcript_id, status, retry_count, result,
          transcript_text, persona_summary, coaching_feedback, halt, notified,
          retryShown, retryClicked, issued, lastUpload, lastSubmit,
          pollCalls, lastPoll, onlyInProgress, ref, session_record,
          persisted, gptCalls>>

\* no session record was assembled
NoRecord ==
    [timestamp |-> "", filename |-> "", transcript |-> Undefined,
     persona |-> Undefined, feedback |-> Undefined]

\* the reference loop before its first iteration: status = "queued",
\* retry_count = 0
RefStart == [pc |-> "poll", status |-> "queued", retry_count |-> 0]

Ended == {"idle", "done", "stopped", "crashed"}

\* a fresh script namespace: nothing is bound
FreshNamespace ==
    /\ audio_url' = Undefined
    /\ transcript_id' = Undefined
    /\ status' = "unset"
    /\ retry_count' = 0
    /\ result' = NoPayload
    /\ transcript_text' = Undefined
    /\ persona_summary' = Undefined
    /\ coaching_feedback' = Undefined

FreshHistory ==
    /\ issued' = {}
    /\ lastUpload' = NoUpload
    /\ lastSubmit' = NoSubmit
    /\ pollCalls' = 0
    /\ lastPoll' = NoPayload
    /\ onlyInProgress' = TRUE
    /\ ref' = RefStart
    /\ session_record' = NoRecord
    /\ persisted' = "none"
    /\ gptCalls' = <<>>

\* an audio file is selected and the page is rendered
Init ==
    /\ pc = "idle"
    /\ run = 0
    /\ audio_url = Undefined
    /\ transcript_id = Undefined
    /\ status = "unset"
    /\ retry_count = 0
    /\ result = NoPayload
    /\ transcript_text = Undefined
    /\ persona_summary = Undefined
    /\ coaching_feedback = Undefined
    /\ halt = ""
    /\ notified = {}
    /\ retryShown = {}
    /\ retryClicked = {}
    /\ issued = {}
    /\ lastUpload = NoUpload
    /\ lastSubmit = NoSubmit
    /\ pollCalls = 0
    /\ lastPoll = NoPayload
    /\ onlyInProgress = TRUE
    /\ ref = RefStart
    /\ session_record = NoRecord
    /\ persisted = "none"
    /\ gptCalls = <<>>

\* ------------------------------------------------------------------ actions
\* the user presses "Start Analysis": the script re-runs, st.button is True
ClickStart ==
    /\ pc \in Ended
    /\ run < MaxRuns
    /\ run' = run + 1
    /\ pc' = "upload"
    /\ FreshNamespace
    /\ FreshHistory
    /\ halt' = ""
    /\ notified' = {}
    /\ retryShown' = {}
    /\ retryClicked' = {}

\* variant: response.json().get("upload_url"), a missing field goes unnoticed
UploadOk_MissingUrlAccepted(r) == Fetch(r.net, UploadTimeout) = "json"

\* upload_to_assemblyai succeeds iff the exchange yields JSON with upload_url
UploadOk(r) == Fetch(r.net, UploadTimeout) = "json" /\ r.hasUrl

\* STEP 1
Upload ==
    /\ pc = "upload"
    /\ \E r \in UploadResponses :
        /\ issued' = issued \cup {[kind |-> "upload", timeout |-> UploadTimeout]}
        /\ lastUpload' = r
        /\ IF Fetch(r.net, UploadTimeout) = "blocked"
           THEN /\ pc' = "blocked"
                /\ UNCHANGED <<audio_url, halt>>
                /\ notified' = {}
           ELSE IF UploadOk(r)
           THEN /\ audio_url' = Str(<<"upload_url">>)
                /\ pc' = "submit"
                /\ notified' = {"info: uploaded"}
                /\ UNCHANGED halt
           ELSE /\ notified' = {"error: upload"}
                /\ halt' = "UploadFailed"
                /\ pc' = "stopped"
                /\ UNCHANGED audio_url
    /\ UNCHANGED <<run, transcript_id, status, retry_count, result,
                   transcript_text, persona_summary, coaching_feedback,
                   retryShown, retryClicked, lastSubmit, pollCalls, lastPoll,
                   onlyInProgress, ref, session_record,
                   persisted, gptCalls>>

\* variant: response_json.get("id"), a missing id goes unnoticed
SubmitOk_MissingIdAccepted(r) == Fetch(r.net, NoTimeout) = "json"

\* the submission yields a transcript id iff the exchange yields JSON with id
SubmitOk(r) == Fetch(r.net, NoTimeout) = "json" /\ r.hasId

\* STEP 2
Submit ==
    /\ pc = "submit"
    /\ \E r \in SubmitResponses :
        /\ issued' = issued \cup {[kind |-> "submit", timeout |-> NoTimeout]}
        /\ lastSubmit' = r
        /\ IF Fetch(r.net, NoTimeout) = "blocked"
           THEN /\ pc' = "blocked"
                /\ notified' = {}
                /\ UNCHANGED <<transcript_id, status, retry_count, halt>>
           ELSE IF SubmitOk(r)
           THEN /\ transcript_id' = Str(<<"id">>)
                /\ status' = "queued"
                /\ retry_count' = 0
                /\ pc' = "poll"
                /\ notified' = {}
                /\ UNCHANGED halt
           ELSE /\ notified' = {"error: submission"}
                /\ halt' = "SubmissionFailed"
                /\ pc' = "stopped"
                /\ UNCHANGED <<transcript_id, status, retry_count>>
    /\ UNCHANGED <<run, audio_url, result, transcript_text, persona_summary,
                   coaching_feedback, retryShown, retryClicked, lastUpload,
                   pollCalls, lastPoll, onlyInProgress, ref, session_record,
                   persisted, gptCalls>>

\* variants of the loop condition: one attempt too many; "completed" not
\* tested; only the known in-progress statuses keep the loop going
PollLoopCond_OffByOne(st, rc) == st \notin {"completed", "error"} /\ rc <= max_retries
PollLoopCond_NoCompleted(st, rc) == st \notin {"error"} /\ rc < max_retries
PollLoopCond_KnownOnly(st, rc) == st \in {"queued", "processing"} /\ rc < max_retries

\* while status not in ["completed", "error"] and retry_count < max_retries
PollLoopCond(st, rc) == st \notin {"completed", "error"} /\ rc < max_retries

\* variant: no elif for "error"
PollBranch_NoErrorBranch(st) ==
    CASE st = "completed" -> "completed"
      [] OTHER -> "progress"

\* the if / elif / else on the status a poll returned
PollBranch(st) ==
    CASE st = "completed" -> "completed"
      [] st = "error" -> "error"
      [] OTHER -> "progress"

\* how one pass through the try block ends when the poll exchange ends as r
\* and the progress_bar / status_text calls succeed (obsOk) or raise:
\*   "blocked"  requests.get never returns
\*   "except"   an Exception reaches the except clause
\*   "break"    completed, the loop is left
\*   "stop"     error, st.stop()
\*   "next"     in progress, the try block ends normally
PollTry(r, obsOk) ==
    CASE Fetch(r.net, NoTimeout) = "blocked" -> "blocked"
      [] Fetch(r.net, NoTimeout) = "raise" -> "except"
      [] Fetch(r.net, NoTimeout) = "json" /\ ~r.hasStatus -> "except"
      [] OTHER ->
            CASE PollBranch(r.status) = "completed" ->
                    IF obsOk THEN "break" ELSE "except"
              [] PollBranch(r.status) = "error" -> "stop"
              [] OTHER -> IF obsOk THEN "next" ELSE "except"

\* status = poll_json["status"] was executed
StatusRead(r) == Fetch(r.net, NoTimeout) = "json" /\ r.hasStatus

\* variant: the except clause reports an error and stops the run
PollExceptHandler_Fatal ==
    [pc |-> "stopped", notified |-> {"error: poll"}, halt |-> "PollFailed"]

\* variant: except Exception: pass
PollExceptHandler_Silent == [pc |-> "poll", notified |-> {}, halt |-> ""]

\* what the except clause of the polling loop does: st.warning, then the
\* loop goes on to retry_count += 1
PollExceptHandler == [pc |-> "poll", notified |-> {"warning: poll"}, halt |-> ""]

\* one iteration of the reference loop on the poll answer r: the same try
\* block with the progress display working
RefIter(rf, r) ==
    IF ~(rf.pc = "poll" /\ PollLoopCond(rf.status, rf.retry_count))
    THEN rf
    ELSE [pc |-> CASE PollTry(r, TRUE) = "blocked" -> "blocked"
                   [] PollTry(r, TRUE) = "break" -> "after_poll"
                   [] PollTry(r, TRUE) = "stop" -> "stopped"
                   [] OTHER -> "poll",
          status |-> IF StatusRead(r) THEN r.status ELSE rf.status,
          retry_count |-> IF PollTry(r, TRUE) \in {"except", "next"}
                          THEN rf.retry_count + 1
                          ELSE rf.retry_count]

\* one iteration of the polling loop
Poll ==
    /\ pc = "poll"
    /\ PollLoopCond(status, retry_count)
    /\ \E r \in PollResponses, obsOk \in BOOLEAN :
        /\ issued' = issued \cup {[kind |-> "poll", timeout |-> NoTimeout]}
        /\ pollCalls' = pollCalls + 1
        /\ lastPoll' = r
        /\ ref' = RefIter(ref, r)
        /\ onlyInProgress' =
              (onlyInProgress /\ StatusRead(r) /\ r.status \notin {"completed", "error"})
        /\ status' = IF StatusRead(r) THEN r.status ELSE status
        /\ result' = IF StatusRead(r) /\ PollBranch(r.status) = "completed"
                     THEN r ELSE result
        /\ CASE PollTry(r, obsOk) = "blocked" ->
                    /\ pc' = "blocked"
                    /\ notified' = {}
                    /\ UNCHANGED <<retry_count, halt>>
             [] PollTry(r, obsOk) = "except" ->
                    /\ pc' = PollExceptHandler.pc
                    /\ notified' = PollExceptHandler.notified
                    /\ halt' = PollExceptHandler.halt
                    /\ retry_count' = retry_count + 1
             [] PollTry(r, obsOk) = "break" ->
                    /\ pc' = "after_poll"
                    /\ notified' = {"progress: 1.0", "success: transcription"}
                    /\ UNCHANGED <<retry_count, halt>>
             [] PollTry(r, obsOk) = "stop" ->
                    /\ pc' = "stopped"
                    /\ notified' = {"error: transcription"}
                    /\ halt' = "TranscriptionFailed"
                    /\ UNCHANGED retry_count
             [] OTHER ->
                    /\ pc' = "poll"
                    /\ notified' = {"progress", "info: status"}
                    /\ retry_count' = retry_count + 1
                    /\ UNCHANGED halt
    /\ UNCHANGED <<run, audio_url, transcript_id, transcript_text,
                   persona_summary, coaching_feedback, retryShown,
                   retryClicked, lastUpload, lastSubmit, session_record,
                   persisted, gptCalls>>

\* after the loop: the timeout check, then transcript_text = result["text"]
PollExit ==
    /\ \/ pc = "after_poll"
       \/ pc = "poll" /\ ~PollLoopCond(status, retry_count)
    /\ IF retry_count >= max_retries
       THEN /\ pc' = "stopped"
            /\ halt' = "Timeout"
            /\ notified' = {"error: timeout"}
            /\ UNCHANGED transcript_text
       ELSE IF result = NoPayload \/ ~result.hasText
       THEN \* NameError or KeyError, outside any try
            /\ pc' = "crashed"
            /\ halt' = "Exception"
            /\ notified' = {"exception"}
            /\ UNCHANGED transcript_text
       ELSE /\ transcript_text' = result.text
            /\ pc' = "persona"
            /\ notified' = {"transcript"}
            /\ UNCHANGED halt
    /\ UNCHANGED <<run, audio_url, transcript_id, status, retry_count, result,
                   persona_summary, coaching_feedback, retryShown,
                   retryClicked, issued, lastUpload, lastSubmit, pollCalls,
                   lastPoll, onlyInProgress, ref, session_record,
                   persisted, gptCalls>>

\* the completion request of get_gpt_response carries timeout=30
GptCall == [kind |-> "completion", timeout |-> GptTimeout]

\* variant: the stage calls get_gpt_response again without testing the first
\* value for the error marker
StageCalls_UnguardedRetry(stage, prompt, r) ==
    <<[stage |-> stage, prompt |-> prompt, resp |-> r,
       value |-> get_gpt_response(r)],
      [stage |-> stage, prompt |-> prompt, resp |-> r,
       value |-> get_gpt_response(r)]>>

\* the completion requests a stage makes in a run that Start Analysis
\* triggered: the first attempt only, its retry button being False there
StageCalls(stage, prompt, r) ==
    <<[stage |-> stage, prompt |-> prompt, resp |-> r,
       value |-> get_gpt_response(r)]>>

\* STEP 4.  st.button("Retry Patient Profile Analysis") is False in a run
\* that "Start Analysis" triggered, so the nested retry is not executed here.
Persona ==
    /\ pc = "persona"
    /\ \E r \in GptResponses :
        /\ issued' = issued \cup {GptCall}
        /\ gptCalls' = gptCalls \o
                StageCalls("persona", persona_prompt(transcript_text), r)
        /\ persona_summary' = get_gpt_response(r)
        /\ IF get_gpt_response(r).type # "str"
           THEN \* persona_summary.startswith raises AttributeError
                /\ pc' = "crashed"
                /\ halt' = "Exception"
                /\ notified' = {"exception"}
                /\ UNCHANGED retryShown
           ELSE IF ~startswith(get_gpt_response(r), ErrorMarker)
           THEN /\ pc' = "feedback"
                /\ notified' = {"success: persona"}
                /\ UNCHANGED <<halt, retryShown>>
           ELSE /\ pc' = "feedback"
                /\ notified' = {"error: persona"}
                /\ retryShown' = retryShown \cup {"persona"}
                /\ UNCHANGED halt
    /\ UNCHANGED <<run, audio_url, transcript_id, status, retry_count, result,
                   transcript_text, coaching_feedback, retryClicked,
                   lastUpload, lastSubmit, pollCalls, lastPoll,
                   onlyInProgress, ref, session_record,
                   persisted>>

\* STEP 5
Feedback ==
    /\ pc = "feedback"
    /\ \E r \in GptResponses :
        /\ issued' = issued \cup {GptCall}
        /\ gptCalls' = gptCalls \o
                StageCalls("feedback",
                           coaching_prompt(transcript_text, persona_summary), r)
        /\ coaching_feedback' = get_gpt_response(r)
        /\ IF get_gpt_response(r).type # "str"
           THEN /\ pc' = "crashed"
                /\ halt' = "Exception"
                /\ notified' = {"exception"}
                /\ UNCHANGED retryShown
           ELSE IF ~startswith(get_gpt_response(r), ErrorMarker)
           THEN /\ pc' = "persist"
                /\ notified' = {"success: feedback"}
                /\ UNCHANGED <<halt, retryShown>>
           ELSE /\ pc' = "persist"
                /\ notified' = {"error: feedback"}
                /\ retryShown' = retryShown \cup {"feedback"}
                /\ UNCHANGED halt
    /\ UNCHANGED <<run, audio_url, transcript_id, status, retry_count, result,
                   transcript_text, persona_summary, retryClicked,
                   lastUpload, lastSubmit, pollCalls, lastPoll,
                   onlyInProgress, ref, session_record,
                   persisted>>

\* {timestamp, filename, transcript, persona, feedback}
SessionRecord(transcript, persona, feedback) ==
    [timestamp |-> "UTC ISO-8601", filename |-> "audio_file.name",
     transcript |-> transcript, persona |-> persona, feedback |-> feedback]

\* variant: a failed write ends the run with an error
PersistHandler_Fatal(ok) ==
    IF ok THEN [pc |-> "done", notified |-> {"info: saved"}, halt |-> ""]
    ELSE [pc |-> "stopped", notified |-> {"error: persistence"},
          halt |-> "PersistenceFailed"]

\* what follows the write: a failure is caught and shown as a warning
PersistHandler(ok) ==
    IF ok THEN [pc |-> "done", notified |-> {"info: saved"}, halt |-> ""]
    ELSE [pc |-> "done", notified |-> {"warning: persistence"}, halt |-> ""]

\* Session Record Emitter (spec 4.4; src/app.py has no such step): at the end
\* of a run that resolved the feedback stage the record is assembled and
\* written; the write succeeds or fails
EmitSessionRecord ==
    /\ pc = "persist"
    /\ \E ok \in BOOLEAN :
        /\ session_record' =
              SessionRecord(transcript_text, persona_summary, coaching_feedback)
        /\ persisted' = IF ok THEN "ok" ELSE "failed"
        /\ pc' = PersistHandler(ok).pc
        /\ notified' = PersistHandler(ok).notified
        /\ halt' = PersistHandler(ok).halt
    /\ UNCHANGED <<run, audio_url, transcript_id, status, retry_count, result,
                   transcript_text, persona_summary, coaching_feedback,
                   retryShown, retryClicked, issued, lastUpload, lastSubmit,
                   pollCalls, lastPoll, onlyInProgress, ref, gptCalls>>

\* the user presses a retry button: the script re-runs from the top, where
\* st.button("Start Analysis") is now False, so the pipeline body, the retry
\* branch included, is skipped and the page shows the upload section only
ClickRetry(stage) ==
    /\ pc \in {"done", "crashed"}
    /\ stage \in retryShown
    /\ retryClicked' = retryClicked \cup {stage}
    /\ retryShown' = {}
    /\ pc' = "idle"
    /\ notified' = {}
    /\ FreshNamespace
    /\ UNCHANGED <<run, halt, issued, lastUpload, lastSubmit, pollCalls,
                   lastPoll, onlyInProgress, ref, session_record,
                   persisted, gptCalls>>

ClickRetryPersona == ClickRetry("persona")
ClickRetryFeedback == ClickRetry("feedback")

Next ==
    \/ ClickStart
    \/ Upload
    \/ Submit
    \/ Poll
    \/ PollExit
    \/ Persona
    \/ Feedback
    \/ EmitSessionRecord
    \/ ClickRetryPersona
    \/ ClickRetryFeedback

Spec == Init /\ [][Next]_vars

\* types of the state
TypeOK ==
    /\ pc \in {"idle", "upload", "submit", "poll", "after_poll", "persona",
               "feedback", "persist", "done", "stopped", "crashed", "blocked"}
    /\ run \in 0..MaxRuns
    /\ retry_count \in 0..max_retries
    /\ status \in {"unset", "completed", "error"} \cup InProgressStatuses
    /\ pollCalls \in 0..max_retries
    /\ Len(gptCalls) <= 2

\* ------------------------------------------------------------ properties
\* how a poll exchange ended
ClientError(r) ==
    \/ r.net \in {"conn_error", "http_status", "bad_json"}
    \/ r.net = "json" /\ ~r.hasStatus
Returned(r, st) == r.net = "json" /\ r.hasStatus /\ r.status = st
ReturnedInProgress(r) ==
    r.net = "json" /\ r.hasStatus /\ r.status \notin {"completed", "error"}
KindsIssued == {c.kind : c \in issued}

\* C1: when every poll returns a non-terminal status, polling goes on until
\* exactly 30 poll requests were made, then the run halts with the Timeout
\* error; there is never a 31st poll request and no completion is requested.
C1_ThirtyPollsThenTimeout ==
    /\ pollCalls <= 30
    /\ (onlyInProgress /\ pollCalls > 0 /\ pc = "poll")
          => (PollLoopCond(status, retry_count) <=> pollCalls < 30)
    /\ (onlyInProgress /\ pollCalls > 0 /\ pc # "poll")
          => /\ pollCalls = 30
             /\ pc = "stopped"
             /\ halt = "Timeout"
             /\ gptCalls = <<>>
C1_Witness ==
    onlyInProgress /\ pollCalls = 30 /\ pc = "stopped" /\ halt = "Timeout"

\* the transcript and every prompt come from the completed payload
C2_State ==
    /\ transcript_text # Undefined
          => /\ Returned(lastPoll, "completed")
             /\ lastPoll.hasText
             /\ transcript_text = lastPoll.text
    /\ gptCalls # <<>>
          => /\ Returned(lastPoll, "completed")
             /\ \A i \in 1..Len(gptCalls) :
                    Embeds(gptCalls[i].prompt.toks, lastPoll.text.toks)
\* after a completed poll the run makes no poll request
C2_Step ==
    (Returned(lastPoll, "completed") /\ run' = run)
        => (pollCalls' = pollCalls /\ lastPoll' = lastPoll)
\* C2: once a poll returned "completed" no further poll request is made in
\* that run (so a "completed" on the first poll leaves exactly one poll
\* request), and the transcript every later stage uses is the text field of
\* that completed payload.
C2_CompletedStopsPolling == [](C2_State) /\ [][C2_Step]_vars
C2_Witness ==
    /\ pollCalls = 1
    /\ Returned(lastPoll, "completed")
    /\ pc = "done"
    /\ transcript_text = lastPoll.text

\* after an error status the run is stopped, nothing was asked of the
\* completion service
C3_State ==
    Returned(lastPoll, "error")
        => /\ pc = "stopped"
           /\ halt = "TranscriptionFailed"
           /\ "error: transcription" \in notified
           /\ gptCalls = <<>>
\* after an error status the run makes no poll request
C3_Step ==
    (Returned(lastPoll, "error") /\ run' = run) => pollCalls' = pollCalls
\* C3: when a poll returns status "error" the run is stopped at once with the
\* transcription-failed error: no further poll, no completion request.
C3_ErrorStatusIsFatal == [](C3_State) /\ [][C3_Step]_vars
C3_Witness ==
    Returned(lastPoll, "error") /\ pc = "stopped" /\ pollCalls > 1

\* the upload exchange did not yield an upload_url
UploadFailed(r) == r # NoUpload /\ ~(r.net = "json" /\ r.hasUrl)
\* C4: when the upload fails (no answer within the timeout, connection
\* error, non-2xx, unparseable body, no upload_url) the run halts with the
\* upload-failed error and the upload is the only remote call of the run.
C4_UploadFailureIsFatal ==
    UploadFailed(lastUpload)
        => /\ pc = "stopped"
           /\ halt = "UploadFailed"
           /\ KindsIssued = {"upload"}
           /\ lastSubmit = NoSubmit
           /\ pollCalls = 0
           /\ gptCalls = <<>>
C4_Witness ==
    /\ lastUpload.net = "http_status"
    /\ pc = "stopped"
    /\ halt = "UploadFailed"

\* the effect of a poll that ends in a client-level error
C5_Step ==
    (pollCalls' = pollCalls + 1 /\ ClientError(lastPoll'))
        => /\ "warning: poll" \in notified'
           /\ retry_count' = retry_count + 1
           /\ status' = status
           /\ pc' = "poll"
           /\ halt' = ""
           /\ (retry_count' < max_retries => PollLoopCond(status', retry_count'))
\* C5: a poll that ends in a client-level error (connection failure, non-2xx,
\* unparseable body, no status field) shows a warning, uses up exactly one
\* attempt, leaves status as it was, does not end the run, and the loop goes
\* on while attempts remain.
C5_PollClientErrorNotFatal == [][C5_Step]_vars
C5_Witness ==
    /\ ClientError(lastPoll)
    /\ pc = "poll"
    /\ status = "processing"
    /\ retry_count > 1
    /\ PollLoopCond(status, retry_count)

\* after a non-terminal status polling is over only by exhaustion
C6_State ==
    (ReturnedInProgress(lastPoll) /\ pc # "poll")
        => /\ pc = "stopped"
           /\ halt = "Timeout"
           /\ retry_count = max_retries
\* the effect of a poll that returns a non-terminal status
C6_Step ==
    (pollCalls' = pollCalls + 1 /\ ReturnedInProgress(lastPoll'))
        => /\ pc' = "poll"
           /\ status' = lastPoll'.status
           /\ retry_count' = retry_count + 1
           /\ halt' = ""
           /\ (retry_count' < max_retries => PollLoopCond(status', retry_count'))
\* C6: a poll that returns any status other than completed and error, known
\* or not, and also "queued" after "processing", raises nothing and does not
\* end polling: the loop goes on while attempts remain, and after such a
\* status polling ends only because the 30 attempts are used up.
C6_UnknownStatusKeepsPolling == [](C6_State) /\ [][C6_Step]_vars
C6_Witness ==
    /\ Returned(lastPoll, "resumed")
    /\ pc = "poll"
    /\ pollCalls > 1
    /\ PollLoopCond(status, retry_count)

\* the script run is over
RunOver == pc \in {"done", "stopped", "crashed"}
IsErrorText(v) == v.type = "str" /\ startswith(v, ErrorMarker)

\* C7: a failure of the persona stage never keeps the feedback stage from
\* running: in every run that obtained a transcript the feedback completion
\* is requested, with the coaching prompt built from the transcript and the
\* persona text, which is the error placeholder when the persona failed.
C7_FeedbackAlwaysAttempted ==
    (RunOver /\ transcript_text # Undefined)
        => \E i \in 1..Len(gptCalls) :
              /\ gptCalls[i].stage = "feedback"
              /\ gptCalls[i].prompt = coaching_prompt(transcript_text, persona_summary)
              /\ IsErrorText(persona_summary)
                    => Embeds(gptCalls[i].prompt.toks, persona_summary.toks)

\* C8: when a stage's first completion yielded an error marker and the user
\* pressed the stage's retry button, the completion service was called a
\* second time for that stage with the same prompt, and the second value is
\* the stage's result.
StageResult(stage) ==
    IF stage = "persona" THEN persona_summary ELSE coaching_feedback
C8_RetryReinvokesCompletion ==
    \A stage \in retryClicked :
        \E i, j \in 1..Len(gptCalls) :
            /\ i < j
            /\ gptCalls[i].stage = stage
            /\ gptCalls[j].stage = stage
            /\ IsErrorText(gptCalls[i].value)
            /\ gptCalls[j].prompt = gptCalls[i].prompt
            /\ StageResult(stage) = gptCalls[j].value

\* C9: a completion answer without "choices" whose error.message is "rate
\* limited" does not end the run: the stage's value is an error placeholder
\* that contains that message, and the stage's retry button is shown.
RateLimited == GptResp("json", FALSE, 0, FALSE, Undefined, "rate limited")
C9_RateLimitedPlaceholder ==
    \A i \in 1..Len(gptCalls) :
        gptCalls[i].resp = RateLimited
            => /\ IsErrorText(gptCalls[i].value)
               /\ Embeds(gptCalls[i].value.toks, <<"rate limited">>)
               /\ pc # "idle" =>
                     /\ gptCalls[i].stage \in retryShown
                     /\ StageResult(gptCalls[i].stage) = gptCalls[i].value
               /\ i = Len(gptCalls) =>
                     /\ pc \in {"feedback", "persist", "done", "idle"}
                     /\ halt = ""
C9_Witness ==
    /\ pc = "feedback"
    /\ gptCalls[1].resp = RateLimited
    /\ "persona" \in retryShown
    /\ Embeds(persona_summary.toks, <<"rate limited">>)

\* C10: every remote call of a run is made with an explicit timeout, and no
\* call waits for ever.
C10_EveryCallHasTimeout ==
    /\ \A c \in issued : c.timeout > NoTimeout
    /\ pc # "blocked"


\* the submission exchange came back without yielding an id: connection
\* error, non-2xx, unparseable body, or JSON without "id"
SubmitFailed(r) ==
    \/ r.net \in {"conn_error", "http_status", "bad_json"}
    \/ r.net = "json" /\ ~r.hasId
\* C11: when the submission fails at the client level, or answers without an
\* id, the run halts with the submission-failed error and makes no poll
\* request and no completion request.
C11_SubmissionFailureIsFatal ==
    SubmitFailed(lastSubmit)
        => /\ pc = "stopped"
           /\ halt = "SubmissionFailed"
           /\ "error: submission" \in notified
           /\ KindsIssued = {"upload", "submit"}
           /\ pollCalls = 0
           /\ lastPoll = NoPayload
           /\ gptCalls = <<>>
C11_Witness ==
    /\ lastSubmit = SubmitResp("json", FALSE)
    /\ pc = "stopped"
    /\ halt = "SubmissionFailed"


\* how the polling stage ended, from where the loop stands, its
\* retry_count and the payload it kept: "polling" while it has not
PollingOutcome(loc, st, rc, payload, stopReason) ==
    CASE loc = "blocked" -> "blocked"
      [] loc = "stopped" -> stopReason
      [] loc = "poll" /\ PollLoopCond(st, rc) -> "polling"
      [] rc >= max_retries -> "Timeout"
      [] payload = NoPayload \/ ~payload.hasText -> "Exception"
      [] OTHER -> "transcript"
\* the outcome of the loop that is running
ActualOutcome ==
    IF pc \in {"poll", "after_poll"}
    THEN PollingOutcome(pc, status, retry_count, result, "")
    ELSE IF pc \in {"persona", "feedback", "persist", "done"} THEN "transcript"
    ELSE IF pc = "blocked" THEN "blocked"
    ELSE IF gptCalls # <<>> THEN "transcript"
    ELSE halt
\* the outcome of the reference loop
RefOutcome ==
    PollingOutcome(ref.pc, ref.status, ref.retry_count,
                   IF Returned(lastPoll, "completed") THEN lastPoll ELSE NoPayload,
                   "TranscriptionFailed")
\* C12: progress reporting is advisory: for the same poll answers the
\* polling stage ends the same way and uses the same number of attempts
\* whether the progress display works or raises.
C12_ProgressIsAdvisory ==
    (pollCalls > 0 /\ pc # "idle")
        => /\ retry_count = ref.retry_count
           /\ RefOutcome # "polling" => ActualOutcome = RefOutcome


\* C13: at the end of a run the record {timestamp, filename, transcript,
\* persona, feedback} is handed to the persistence collaborator; a failed
\* write is only shown as a warning and changes neither the transcript,
\* persona and feedback already produced nor the outcome of the run.
C13_PersistenceIsBestEffort ==
    /\ pc = "done" => persisted # "none"
    /\ persisted # "none"
          => /\ pc \in {"done", "idle"}
             /\ halt = ""
             /\ Len(gptCalls) = 2
             /\ session_record =
                   SessionRecord(lastPoll.text, gptCalls[1].value, gptCalls[2].value)
             /\ session_record.timestamp # ""
             /\ session_record.filename # ""
             /\ pc = "done"
                   => /\ transcript_text = session_record.transcript
                      /\ persona_summary = session_record.persona
                      /\ coaching_feedback = session_record.feedback
                      /\ persisted = "failed" => "warning: persistence" \in notified
C13_Witness ==
    /\ persisted = "failed"
    /\ pc = "done"
    /\ "warning: persistence" \in notified
    /\ session_record.transcript \in Texts


\* the latest completion call
LastGptCall(calls) == calls[Len(calls)]
\* what each kind of step shows when it meets an error
C14_Step ==
    /\ (pc = "upload" /\ UploadFailed(lastUpload'))
          => "error: upload" \in notified'
    /\ (pc = "submit" /\ SubmitFailed(lastSubmit'))
          => "error: submission" \in notified'
    /\ (pollCalls' = pollCalls + 1 /\ ClientError(lastPoll'))
          => "warning: poll" \in notified'
    /\ (pollCalls' = pollCalls + 1 /\ Returned(lastPoll', "error"))
          => "error: transcription" \in notified'
    /\ (pc \in {"poll", "after_poll"} /\ pc' \notin {"poll", "after_poll"}
            /\ pollCalls' = pollCalls /\ retry_count >= max_retries)
          => "error: timeout" \in notified'
    /\ (Len(gptCalls') = Len(gptCalls) + 1 /\ IsErrorText(LastGptCall(gptCalls').value))
          => ("error: " \o LastGptCall(gptCalls').stage) \in notified'
\* C14: no error is swallowed: an upload failure, a submission failure or
\* missing id, a poll client error, a job status "error", the polling timeout,
\* a persona and a feedback completion failure each show an error or a
\* warning in the step that meets them.
C14_EveryErrorIsShown == [][C14_Step]_vars
C14_Witness ==
    /\ pc = "persist"
    /\ IsErrorText(coaching_feedback)
    /\ "error: feedback" \in notified
    /\ IsErrorText(persona_summary)
    /\ retry_count > 0


\* the attempt counter and the poll requests stay within the budget
C15_State ==
    /\ retry_count \in 0..30
    /\ max_retries = 30
    /\ pollCalls \in 0..30
    /\ retry_count <= pollCalls
\* within a run the counter never decreases and an iteration adds at most 1
C15_Step ==
    /\ pc \in {"poll", "after_poll"}
          => (retry_count' = retry_count \/ retry_count' = retry_count + 1)
    /\ (run' = run /\ pc' # "idle") => retry_count' >= retry_count
\* C15: during polling the attempt counter stays between 0 and 30, never
\* decreases, changes by at most 1 per iteration, and a run never makes more
\* than 30 poll requests, however answers, unknown statuses and client
\* errors interleave.
C15_AttemptsBounded == [](C15_State) /\ [][C15_Step]_vars
C15_Witness ==
    /\ pc = "poll"
    /\ retry_count = 30
    /\ pollCalls = 30
    /\ ~onlyInProgress
    /\ ClientError(lastPoll)
    /\ status = "resumed"


\* the completion calls of one stage, in order
IsStage(stage, c) == c.stage = stage
CallsOf(stage) == SelectSeq(gptCalls, LAMBDA c : IsStage(stage, c))
\* C16: in a run the completion service is called at most twice for the
\* persona stage and at most twice for the feedback stage, and a second call
\* for a stage is made only when its first call yielded an error marker.
C16_AtMostOneRetryPerStage ==
    \A stage \in {"persona", "feedback"} :
        /\ Len(CallsOf(stage)) <= 2
        /\ Len(CallsOf(stage)) = 2 => IsErrorText(CallsOf(stage)[1].value)
C16_Witness ==
    /\ retryClicked = {"persona"}
    /\ Len(CallsOf("persona")) >= 1
    /\ IsErrorText(CallsOf("persona")[1].value)
    /\ Len(CallsOf("feedback")) >= 1


\* position of a stage in the pipeline
Rank(loc) ==
    CASE loc = "idle" -> 0
      [] loc = "upload" -> 1
      [] loc = "submit" -> 2
      [] loc = "poll" -> 3
      [] loc = "after_poll" -> 4
      [] loc = "persona" -> 5
      [] loc = "feedback" -> 6
      [] loc = "persist" -> 7
      [] OTHER -> 8
\* each stage's call was made only after the stage before it succeeded
C17_State ==
    /\ lastSubmit # NoSubmit => lastUpload = UploadResp("json", TRUE)
    /\ pollCalls > 0 => lastSubmit = SubmitResp("json", TRUE)
    /\ gptCalls # <<>>
          => /\ Returned(lastPoll, "completed")
             /\ gptCalls[1].stage = "persona"
             /\ gptCalls[1].prompt = persona_prompt(lastPoll.text)
    /\ \A i \in 1..Len(gptCalls) :
          gptCalls[i].stage = "feedback"
              => /\ i > 1
                 /\ gptCalls[i - 1].stage = "persona"
                 /\ gptCalls[i - 1].value.type = "str"
                 /\ gptCalls[i].prompt =
                       coaching_prompt(lastPoll.text, gptCalls[i - 1].value)
                 /\ Embeds(gptCalls[i].prompt.toks, lastPoll.text.toks)
                 /\ Embeds(gptCalls[i].prompt.toks, gptCalls[i - 1].value.toks)
                 /\ \A j \in (i + 1)..Len(gptCalls) : gptCalls[j].stage # "persona"
\* within a run the script never goes back to an earlier stage
C17_Step == (run' = run /\ pc' # "idle") => Rank(pc') >= Rank(pc)
\* C17: the pipeline only moves forward: submission after a successful upload,
\* polling after a submission that returned an id, the persona completion
\* after a poll returned completed, the coaching prompt and the feedback
\* completion after the persona stage is resolved, embedding the transcript
\* and the persona stage's final text; no stage is entered again once a later
\* one has started.
C17_StrictlyForward == [](C17_State) /\ [][C17_Step]_vars
C17_Witness ==
    /\ pc = "done"
    /\ Len(gptCalls) = 2
    /\ IsErrorText(gptCalls[1].value)
    /\ gptCalls[2].value \in Contents
    /\ pollCalls > 2


\* C18: timeout and completion exclude each other: the Timeout error is shown
\* only when none of the 30 polls returned a terminal status, a "completed"
\* on the 30th poll yields its transcript and the persona stage, and the
\* transcript is only read from a payload whose status was "completed".
C18_TimeoutExcludesCompletion ==
    /\ halt = "Timeout"
          => /\ pollCalls = 30
             /\ ~Returned(lastPoll, "completed")
             /\ ~Returned(lastPoll, "error")
    /\ (Returned(lastPoll, "completed") /\ lastPoll.hasText /\ pollCalls = 30
            /\ pc \notin {"poll", "after_poll", "idle"})
          => /\ transcript_text = lastPoll.text
             /\ Rank(pc) >= Rank("persona")
             /\ halt # "Timeout"
    /\ transcript_text # Undefined
          => /\ Returned(result, "completed")
             /\ transcript_text = result.text

\* C19: get_gpt_response is total and two-valued: whatever the completion
\* exchange does, it returns a string that is the completion content or
\* begins with the error marker, so the startswith test of the caller never
\* fails and the run never ends inside the persona or feedback stage.
C19_GptResponseIsTotal ==
    /\ \A i \in 1..Len(gptCalls) :
          /\ gptCalls[i].value.type = "str"
          /\ \/ IsErrorText(gptCalls[i].value)
             \/ /\ gptCalls[i].resp.hasContent
                /\ gptCalls[i].value = gptCalls[i].resp.content
    /\ gptCalls # <<>> => pc \notin {"crashed", "stopped", "blocked"}

====
